---- MODULE Spec2Model ----
(***************************************************************************)
(* Live-score resolution and caching of the soccer broadcast API.          *)
(*                                                                         *)
(*   src/app.py      loader of ALL_MATCHES / KEY_TO_SLUG, get_live_score    *)
(*   src/scraper.py  update_live_score, upsert_live_score,                  *)
(*                   scrape_and_update (both versions)                      *)
(*                                                                         *)
(* Python values are tagged tuples, so that None, 0, "" and "0" stay       *)
(* different values, as they are in the program.                           *)
(***************************************************************************)
EXTENDS Integers, Sequences, FiniteSets, TLC

VARIABLES
    ALL_MATCHES,   \* the fixtures of the league files, in file order
    KEY_TO_SLUG,   \* the alias table: lower-cased alias -> slug
    live_scores,   \* the rows of the live_scores table
    now,           \* the wall clock, the hour of 2025-06-06
    call,          \* per request: where get_live_score stands and what it did
    lastPut,       \* the last acknowledged upsert
    session,       \* the worker's HTTP session: the GET in progress and its retries
    page           \* the score page being scraped and what was extracted from it

vars == <<ALL_MATCHES, KEY_TO_SLUG, live_scores, now, call, lastPut, session, page>>

(***************************************************************************)
(* Bounds of the model.                                                    *)
(***************************************************************************)
\* the wall clock takes the values 0 .. MaxClock
MaxClock == 1

\* the request threads of the API: one beside the refresh worker, two when
\* requests race each other
Threads == {"r1"}
RaceThreads == {"r1", "r2"}

(***************************************************************************)
(* Python values.                                                          *)
(***************************************************************************)
PyNone == <<"None">>
PyInt(n) == <<"int", n>>
PyStr(s) == <<"str", s>>
PyDict(h, a) == <<"dict", h, a>>
PyEmptyDict == <<"emptydict">>

IsNone(v) == v[1] = "None"
IsStr(v) == v[1] = "str"

\* Python truthiness: None, 0, "" and {} are falsy
Truthy(v) ==
    CASE v[1] = "None" -> FALSE
      [] v[1] = "int" -> v[2] # 0
      [] v[1] = "str" -> v[2] # ""
      [] v[1] = "emptydict" -> FALSE
      [] OTHER -> TRUE

\* a or b
Or(a, b) == IF Truthy(a) THEN a ELSE b

Digit(d) ==
    CASE d = 0 -> "0" [] d = 1 -> "1" [] d = 2 -> "2" [] d = 3 -> "3"
      [] d = 4 -> "4" [] d = 5 -> "5" [] d = 6 -> "6" [] d = 7 -> "7"
      [] d = 8 -> "8" [] d = 9 -> "9"

RECURSIVE IntToStr(_)
\* str(n) for n >= 0
IntToStr(n) == IF n < 10 THEN Digit(n) ELSE IntToStr(n \div 10) \o Digit(n % 10)

\* str(v)
Str(v) ==
    CASE v[1] = "int" -> IntToStr(v[2])
      [] v[1] = "str" -> v[2]
      [] OTHER -> "None"

\* s.lower() on the strings of the model (every other string is lower case)
Lower(s) ==
    CASE s = "FLA-PAL" -> "fla-pal"
      [] s = "BRA_A" -> "bra_a"
      [] s = "FLA" -> "fla"
      [] s = "PAL" -> "pal"
      [] s = "BOT" -> "bot"
      [] s = "CEA" -> "cea"
      [] s = "2025-06-06T20:00:00Z" -> "2025-06-06t20:00:00z"
      [] s = "2025-06-06T18:00:00Z" -> "2025-06-06t18:00:00z"
      [] OTHER -> s

\* now.isoformat()
IsoFormat(n) == "2025-06-06T" \o IntToStr(n) \o ":00:00+00:00"

\* d.get(k): the value, None when the key is absent
Get(d, k) == IF k \in DOMAIN d THEN d[k] ELSE PyNone

\* d[k] = v
DictSet(d, k, v) == [x \in DOMAIN d \cup {k} |-> IF x = k THEN v ELSE d[x]]

(***************************************************************************)
(* json.dumps / json.loads on score payloads.                              *)
(***************************************************************************)
JsonScalar(v) == IF IsNone(v) THEN "null" ELSE Str(v)

JsonDumps(v) ==
    CASE v[1] = "dict" ->
           "{\"home\": " \o JsonScalar(v[2]) \o ", \"away\": " \o JsonScalar(v[3]) \o "}"
      [] v[1] = "emptydict" -> "{}"
      [] OTHER -> JsonScalar(v)

\* the goal counts of the model's score payloads
Goals == {PyNone, PyInt(0), PyInt(1)}

JsonDocs == {PyDict(h, a) : h \in Goals, a \in Goals} \cup {PyEmptyDict}

JsonRaise == <<"raise", "JSONDecodeError">>

\* json.loads(v): the decoded value, or the exception it raises
JsonLoads(v) ==
    IF ~IsStr(v) THEN <<"raise", "TypeError">>
    ELSE IF \E d \in JsonDocs : JsonDumps(d) = v[2]
         THEN CHOOSE d \in JsonDocs : JsonDumps(d) = v[2]
         ELSE JsonRaise

(***************************************************************************)
(* Fixtures: the league files read at import time.  A fixture is a JSON    *)
(* object, a function from its keys to values; lid is the league file it   *)
(* was read from.                                                          *)
(***************************************************************************)
FixtureFlaPal ==
    [lid |-> "BRA_A",
     m |-> [id |-> PyInt(101), league |-> PyStr("BRA_A"),
            kickoff |-> PyStr("2025-06-06T18:00:00Z"),
            home_team |-> PyStr("FLA"), away_team |-> PyStr("PAL"),
            slug |-> PyStr("fla-pal")]]

FixtureBotCea ==
    [lid |-> "BRA_A",
     m |-> [league |-> PyStr("BRA_A"),
            kickoff |-> PyStr("2025-06-06T20:00:00Z"),
            home_team |-> PyStr("BOT"), away_team |-> PyStr("CEA"),
            slug |-> PyStr("bot-cea-2025")]]

\* a fixture the loader accepts, written with utcDate/home/away and no league
FixtureBotCeaAlt ==
    [lid |-> "BRA_A",
     m |-> [utcDate |-> PyStr("2025-06-06T20:00:00Z"),
            home |-> PyStr("BOT"), away |-> PyStr("CEA"),
            slug |-> PyStr("bot-cea-2025")]]

\* a second fixture with the numeric id of FixtureFlaPal
FixtureDupId ==
    [lid |-> "BRA_A",
     m |-> [id |-> PyInt(101), league |-> PyStr("BRA_A"),
            kickoff |-> PyStr("2025-06-06T20:00:00Z"),
            home_team |-> PyStr("BOT"), away_team |-> PyStr("CEA"),
            slug |-> PyStr("bot-cea-2025")]]

\* a fixture not linked to a score page yet: no slug
FixtureNoSlug ==
    [lid |-> "BRA_A",
     m |-> [id |-> PyInt(202), league |-> PyStr("BRA_A"),
            kickoff |-> PyStr("2025-06-06T20:00:00Z"),
            home_team |-> PyStr("BOT"), away_team |-> PyStr("CEA")]]

\* league files with a repeated id, an unlinked fixture, a fixture without
\* league ahead of the others
LoaderFixtureSets ==
    { <<FixtureFlaPal, FixtureDupId>>, <<FixtureFlaPal, FixtureNoSlug>>,
      <<FixtureBotCeaAlt, FixtureFlaPal>> }

LoaderIdentifiers == {"101", "202", "bra_a_2025-06-06t20:00:00z_bot_x_cea", "nope"}

FixtureSets ==
    { <<FixtureFlaPal, FixtureBotCea>>, <<FixtureFlaPal, FixtureBotCeaAlt>> }

\* the identifiers presented to GET /score/{identifier}
Identifiers == {"101", "FLA-PAL", "bra_a_2025-06-06t20:00:00z_bot_x_cea", "nope"}

\* m.get("id") or m.get("match_id") or m.get("matchId")
MatchIdOf(m) == Or(Or(Get(m, "id"), Get(m, "match_id")), Get(m, "matchId"))

\* the keys one fixture adds to KEY_TO_SLUG, in the order of the assignments
LoadFixture(table, f) ==
    LET m == f.m
        slug == Get(m, "slug")
        tstr == Or(Or(Or(Get(m, "utcDate"), Get(m, "kickoff")), Get(m, "start")),
                   Get(m, "dateTime"))
        home == Or(Get(m, "home_team"), Get(m, "home"))
        away == Or(Get(m, "away_team"), Get(m, "away"))
        mid == MatchIdOf(m)
        t1 == IF ~IsNone(mid) /\ Truthy(slug)
              THEN DictSet(table, Lower(Str(mid)), slug) ELSE table
        comp == Lower(f.lid) \o "_" \o Lower(Str(tstr)) \o "_" \o Lower(Str(home))
                  \o "_x_" \o Lower(Str(away))
        t2 == IF Truthy(slug) /\ Truthy(tstr) /\ Truthy(home) /\ Truthy(away)
              THEN DictSet(t1, Lower(comp), slug) ELSE t1
    IN  IF Truthy(slug) THEN DictSet(t2, Lower(Str(slug)), slug) ELSE t2

RECURSIVE LoadAll(_, _)
\* the loop over the fixtures that fills KEY_TO_SLUG
LoadAll(table, fs) ==
    IF fs = <<>> THEN table ELSE LoadAll(LoadFixture(table, Head(fs)), Tail(fs))

EmptyDict == [x \in {} |-> PyNone]

\* datetime.fromisoformat(dt_str.replace("Z", "+00:00")), as the hour of the day
parse_datetime(s) ==
    CASE s = "2025-06-06T18:00:00Z" -> <<"datetime", 18>>
      [] s = "2025-06-06T20:00:00Z" -> <<"datetime", 20>>
      [] OTHER -> <<"raise", "ValueError">>

RECURSIVE KickoffScan(_, _)
\* the scan of get_live_score for the fixture's kickoff: <<"ok", kickoff_dt>>
\* (kickoff_dt None when no fixture matched) or the exception a visited
\* fixture raises
KickoffScan(fs, identifier) ==
    IF fs = <<>> THEN <<"ok", PyNone>>
    ELSE LET m == Head(fs).m
             mid == MatchIdOf(m)
             kt == Or(Get(m, "kickoff"), Get(m, "utcDate"))
         IN  IF "league" \notin DOMAIN m THEN <<"raise", "KeyError">>
             ELSE IF ~IsStr(kt) THEN <<"raise", "AttributeError">>
             ELSE IF "home_team" \notin DOMAIN m \/ "away_team" \notin DOMAIN m
                  THEN <<"raise", "KeyError">>
             ELSE LET comp == Lower(Str(m["league"])) \o "_" \o Lower(Str(kt)) \o "_"
                                \o Lower(Str(m["home_team"])) \o "_x_"
                                \o Lower(Str(m["away_team"]))
                  IN  IF (~IsNone(mid) /\ Lower(Str(mid)) = Lower(identifier))
                         \/ comp = Lower(identifier)
                      THEN IF Truthy(kt)
                           THEN LET dt == parse_datetime(Str(kt))
                                IN  IF dt[1] = "raise" THEN dt ELSE <<"ok", dt>>
                           ELSE KickoffScan(Tail(fs), identifier)
                      ELSE KickoffScan(Tail(fs), identifier)

(***************************************************************************)
(* The live_scores table.  Its columns are text (the writers send "" and   *)
(* "35" as minute and a JSON text as score), so a number sent is stored    *)
(* and read back as text.  The field whole is not a column: it records     *)
(* that every data column of the row was set by one and the same upsert.   *)
(***************************************************************************)
DataCols == {"status", "minute", "score", "updated_at"}

\* what a text column holds after v was sent for it
ToText(v) == IF IsNone(v) THEN PyNone ELSE PyStr(Str(v))

Col(payload, row, c) == IF c \in DOMAIN payload THEN ToText(payload[c]) ELSE row[c]

\* the row an upsert inserts: a column the payload omits takes its default
NewRow(payload, dflt) ==
    [match_id |-> Str(payload["match_id"]),
     status |-> ToText(Get(payload, "status")),
     minute |-> ToText(Get(payload, "minute")),
     score |-> ToText(Get(payload, "score")),
     updated_at |-> IF "updated_at" \in DOMAIN payload
                    THEN ToText(payload["updated_at"]) ELSE dflt,
     whole |-> TRUE]

\* the row after an upsert on conflict: only the columns sent are replaced
MergeRow(row, payload) ==
    [match_id |-> row.match_id,
     status |-> Col(payload, row, "status"),
     minute |-> Col(payload, row, "minute"),
     score |-> Col(payload, row, "score"),
     updated_at |-> Col(payload, row, "updated_at"),
     whole |-> DataCols \subseteq DOMAIN payload]

\* the table is kept as its rows grouped by match_id, in insertion order
HasRow(table, key) == table[key] # <<>>

\* a bug: the write adds a row whatever the table holds
StoreInsert(table, payload, dflt) ==
    [table EXCEPT ![Str(payload["match_id"])] = Append(@, NewRow(payload, dflt))]

\* table("live_scores").upsert(payload, on_conflict="match_id").execute()
StoreUpsert(table, payload, dflt) ==
    IF HasRow(table, Str(payload["match_id"]))
    THEN [table EXCEPT ![Str(payload["match_id"])] =
            [i \in DOMAIN @ |-> MergeRow(@[i], payload)]]
    ELSE [table EXCEPT ![Str(payload["match_id"])] = <<NewRow(payload, dflt)>>]

\* the columns of a row, as a select returns them
Visible(row) ==
    [match_id |-> PyStr(row.match_id), status |-> row.status, minute |-> row.minute,
     score |-> row.score, updated_at |-> row.updated_at]

\* table("live_scores").select(...).eq("match_id", key).execute().data
StoreSelect(table, key) == [i \in DOMAIN table[key] |-> Visible(table[key][i])]

\* what selects can tell about the table
VisibleTable(table) == [k \in DOMAIN table |-> StoreSelect(table, k)]

\* the default of updated_at on insert: no writer of the repository relies on
\* a default, the column is left NULL
InsertDefaults == {PyNone}

(***************************************************************************)
(* get_live_score of app.py, GET /score/{identifier}.                      *)
(***************************************************************************)
IdleCall ==
    [pc |-> "idle", identifier |-> "", now |-> 0, kickoff_dt |-> PyNone,
     path |-> "none", reads |-> 0, writes |-> 0, fetches |-> 0, extractions |-> 0,
     acked |-> FALSE, out |-> <<"none">>]

NoPut ==
    [by |-> "none", payload |-> EmptyDict, twice |-> "no"]

Response(identifier, status, minute, score, updated_at) ==
    <<"record", [match_id |-> PyStr(identifier), status |-> status, minute |-> minute,
                 score |-> score, updated_at |-> updated_at]>>

\* a bug: the lookup result is not tested
UnknownMatchNever(slug) == FALSE

\* if not slug: raise HTTPException(404)
UnknownMatch(slug) == ~Truthy(slug)

\* the key the cache is read and written under
CacheKey(identifier) == identifier

\* a bug: the hit branch checks the stored status against the kickoff time
HitResponseRevalidated(identifier, rec, kickoff_dt, t) ==
    LET score == JsonLoads(Get(rec, "score"))
        status == IF kickoff_dt[1] = "datetime" /\ kickoff_dt[2] > t
                  THEN PyStr("upcoming") ELSE Or(Get(rec, "status"), PyStr("unknown"))
    IN  IF score[1] = "raise" THEN score
        ELSE Response(identifier, status, Or(Get(rec, "minute"), PyStr("")), score,
                      Get(rec, "updated_at"))

\* the hit branch: the response built from the stored row
HitResponse(identifier, rec, kickoff_dt, t) ==
    LET score == JsonLoads(Get(rec, "score"))
    IN  IF score[1] = "raise" THEN score
        ELSE Response(identifier, Or(Get(rec, "status"), PyStr("unknown")),
                      Or(Get(rec, "minute"), PyStr("")), score, Get(rec, "updated_at"))

\* the miss branch: the placeholder values the response and the upsert carry
MissStatus == PyStr("NS")
MissMinute == PyInt(0)
MissScore == PyDict(PyInt(0), PyInt(0))

MissResponse(identifier, t) ==
    Response(identifier, MissStatus, MissMinute, MissScore, PyStr(IsoFormat(t)))

MissPayload(identifier, t) ==
    [match_id |-> PyStr(CacheKey(identifier)), status |-> MissStatus,
     minute |-> MissMinute, score |-> PyStr(JsonDumps(MissScore)),
     updated_at |-> PyStr(IsoFormat(t))]

\* what an acknowledged upsert leaves in lastPut
PutRecord(by, payload, table) ==
    [by |-> by, payload |-> payload,
     twice |-> IF lastPut.payload # payload THEN "no"
               ELSE IF VisibleTable(table) = VisibleTable(live_scores)
                    THEN "same" ELSE "differs"]

\* lines 218-233: the alias lookup and the scan for the kickoff time
get_live_score_lookup(p, identifier) ==
    /\ call[p].pc = "idle"
    /\ LET slug == Get(KEY_TO_SLUG, Lower(identifier))
           scan == KickoffScan(ALL_MATCHES, identifier)
           c == [IdleCall EXCEPT !.identifier = identifier, !.now = now]
       IN  call' = [call EXCEPT ![p] =
             IF UnknownMatch(slug)
             THEN [c EXCEPT !.pc = "done", !.path = "notfound", !.out = <<"http", 404>>]
             ELSE IF scan[1] = "raise"
             THEN [c EXCEPT !.pc = "done", !.path = "scan", !.out = scan]
             ELSE [c EXCEPT !.pc = "select", !.kickoff_dt = scan[2]]]
    /\ UNCHANGED <<ALL_MATCHES, KEY_TO_SLUG, session, page, live_scores, now, lastPut>>

\* lines 235-258: the select, then the hit branch or the values of the miss
get_live_score_select(p) ==
    /\ call[p].pc = "select"
    /\ \E answered \in BOOLEAN :
         LET c == [call[p] EXCEPT !.reads = @ + 1]
             data == StoreSelect(live_scores, CacheKey(c.identifier))
         IN  call' = [call EXCEPT ![p] =
               IF ~answered
               THEN [c EXCEPT !.pc = "done", !.path = "storeerror", !.out = <<"http", 500>>]
               ELSE IF data # <<>>
               THEN [c EXCEPT !.pc = "done", !.path = "hit",
                              !.out = HitResponse(c.identifier, data[1], c.kickoff_dt, c.now)]
               ELSE [c EXCEPT !.pc = "upsert", !.path = "miss"]]
    /\ UNCHANGED <<ALL_MATCHES, KEY_TO_SLUG, session, page, live_scores, now, lastPut>>

\* lines 262-275: the upsert of the miss branch and the return.  execute()
\* either stores the row, or comes back with an error that is not looked at,
\* or raises, and nothing catches it
get_live_score_upsert(p) ==
    /\ call[p].pc = "upsert"
    /\ \E outcome \in {"stored", "error", "raised"}, dflt \in InsertDefaults :
         LET c == [call[p] EXCEPT !.writes = @ + 1, !.pc = "done"]
             payload == MissPayload(c.identifier, c.now)
             table == StoreUpsert(live_scores, payload, dflt)
         IN  \/ /\ outcome = "stored"
                /\ live_scores' = table
                /\ lastPut' = PutRecord("get_live_score", payload, table)
                /\ call' = [call EXCEPT ![p] =
                     [c EXCEPT !.acked = TRUE, !.out = MissResponse(c.identifier, c.now)]]
             \/ /\ outcome = "error"
                /\ call' = [call EXCEPT ![p] =
                     [c EXCEPT !.out = MissResponse(c.identifier, c.now)]]
                /\ UNCHANGED <<live_scores, lastPut>>
             \/ /\ outcome = "raised"
                /\ call' = [call EXCEPT ![p] = [c EXCEPT !.out = <<"http", 500>>]]
                /\ UNCHANGED <<live_scores, lastPut>>
    /\ UNCHANGED <<ALL_MATCHES, KEY_TO_SLUG, session, page, now>>

\* the response is sent; the worker thread serves the next request
get_live_score_return(p) ==
    /\ call[p].pc = "done"
    /\ call' = [call EXCEPT ![p] = IdleCall]
    /\ UNCHANGED <<ALL_MATCHES, KEY_TO_SLUG, session, page, live_scores, now, lastPut>>

(***************************************************************************)
(* The refresh worker of scraper.py.                                       *)
(***************************************************************************)
RECURSIVE UpcomingMatchIds(_)
\* the match_id values GET /matches answers with (get_upcoming_matches), or
\* the exception it raises; every fixture of the model is inside the window
UpcomingMatchIds(fs) ==
    IF fs = <<>> THEN <<"ok", {}>>
    ELSE LET m == Head(fs).m
             tstr == Or(Or(Or(Get(m, "utcDate"), Get(m, "kickoff")), Get(m, "start")),
                        Get(m, "dateTime"))
             mid == MatchIdOf(m)
             rest == UpcomingMatchIds(Tail(fs))
         IN  IF ~Truthy(tstr) \/ parse_datetime(Str(tstr))[1] = "raise" THEN rest
             ELSE IF ~IsNone(mid)
                  THEN IF rest[1] = "raise" THEN rest ELSE <<"ok", {Str(mid)} \cup rest[2]>>
             ELSE IF "home_team" \notin DOMAIN m \/ "away_team" \notin DOMAIN m
                  THEN <<"raise", "KeyError">>
             ELSE IF rest[1] = "raise" THEN rest
             ELSE <<"ok", {Lower(Head(fs).lid) \o "_" \o Lower(Str(tstr)) \o "_"
                             \o Lower(Str(m["home_team"])) \o "_x_"
                             \o Lower(Str(m["away_team"]))} \cup rest[2]>>

\* the match ids the worker loops over
WorkerMatchIds ==
    LET got == UpcomingMatchIds(ALL_MATCHES) IN IF got[1] = "ok" THEN got[2] ELSE {}

\* "bot_x_cea" in match_id, on the match ids of the model
ContainsBotCea(match_id) == match_id \in {"bra_a_2025-06-06t20:00:00z_bot_x_cea"}

\* get_live_score(match_id) of scraper.py: the simulated live source
scraper_get_live_score(match_id) ==
    IF ContainsBotCea(match_id)
    THEN [status |-> PyStr("live"), minute |-> PyStr("35"), score |-> PyStr("1 - 0")]
    ELSE [status |-> PyStr("upcoming"), minute |-> PyNone, score |-> PyNone]

\* the match ids update_live_score is called with (scraper.py line 53)
MatchIds == {"bra_a_2025-06-06t20:00:00z_bot_x_cea"}

\* every value the match_id column takes
Keys == Identifiers \cup MatchIds

\* what a scraper hands to update_live_score (scraper.py lines 54-56)
ScrapedTexts == {[score |-> "1-0", minute |-> "35", status |-> "1st half"]}

\* what scrape_match_page returns when it returns
LiveResults ==
    {[status |-> PyStr("live"), minute |-> PyStr("35"), score |-> PyDict(PyInt(1), PyInt(0))]}

\* the record update_live_score sends
UpdatePayload(match_id, score, minute, status) ==
    [match_id |-> PyStr(match_id), score |-> PyStr(score), minute |-> PyStr(minute),
     status |-> PyStr(status)]

\* the record upsert_live_score sends
UpsertPayload(match_id, status, minute, score) ==
    [match_id |-> PyStr(match_id),
     status |-> Or(status, PyStr("unknown")),
     minute |-> Or(minute, PyStr("")),
     score |-> PyStr(JsonDumps(Or(score, PyDict(PyNone, PyNone))))]

\* update_live_score(match_id, score, minute, status)
update_live_score(match_id, score, minute, status) ==
    /\ \E stored \in BOOLEAN, dflt \in InsertDefaults :
         LET payload == UpdatePayload(match_id, score, minute, status)
             table == StoreUpsert(live_scores, payload, dflt)
         IN  IF stored
             THEN /\ live_scores' = table
                  /\ lastPut' = PutRecord("update_live_score", payload, table)
             ELSE UNCHANGED <<live_scores, lastPut>>
    /\ UNCHANGED <<ALL_MATCHES, KEY_TO_SLUG, session, page, now, call>>

\* upsert_live_score(match_id, status, minute, score), called by `by`
upsert_live_score(by, match_id, status, minute, score) ==
    \E stored \in BOOLEAN, dflt \in InsertDefaults :
      LET payload == UpsertPayload(match_id, status, minute, score)
          table == StoreUpsert(live_scores, payload, dflt)
      IN  IF stored
          THEN /\ live_scores' = table
               /\ lastPut' = PutRecord(by, payload, table)
          ELSE UNCHANGED <<live_scores, lastPut>>

\* one turn of the loop of scrape_and_update, scraper.py lines 86-104
scrape_and_update_page ==
    /\ \E mid \in WorkerMatchIds :
         \/ \* get_fs_slug finds no slug, or scrape_match_page raises: continue
            UNCHANGED <<live_scores, lastPut>>
         \/ \E live \in LiveResults :
              upsert_live_score("scrape_and_update_page", mid,
                                live.status, live.minute, live.score)
    /\ UNCHANGED <<ALL_MATCHES, KEY_TO_SLUG, session, page, now, call>>

\* one turn of the loop of scrape_and_update, scraper.py lines 176-199
scrape_and_update ==
    /\ \/ \* fetch_matches_for_league raises: continue
          /\ UpcomingMatchIds(ALL_MATCHES)[1] = "raise"
          /\ UNCHANGED <<live_scores, lastPut>>
       \/ \E mid \in WorkerMatchIds :
            upsert_live_score("scrape_and_update", mid, PyNone, PyNone, PyEmptyDict)
    /\ UNCHANGED <<ALL_MATCHES, KEY_TO_SLUG, session, page, now, call>>

\* time passes
Tick ==
    /\ now < 19 + MaxClock
    /\ now' = now + 1
    /\ UNCHANGED <<ALL_MATCHES, KEY_TO_SLUG, session, page, live_scores, call, lastPut>>

(***************************************************************************)
(* The worker's HTTP session: get_session mounts a urllib3 Retry on        *)
(* https://, and load_leagues_from_api / fetch_matches_for_league send     *)
(* their GET through it and call raise_for_status on the response.         *)
(***************************************************************************)
\* Retry(total=3): the number of retries left when the GET starts
RetryTotal == 3

\* status_forcelist=[429, 500, 502, 503, 504]
StatusForcelist == {429, 500, 502, 503, 504}

\* the statuses for which Retry honours a Retry-After header
RetryAfterStatusCodes == {413, 429, 503}

Timeout == [kind |-> "timeout", status |-> 0, retry_after |-> FALSE]

HttpResponse(st, ra) == [kind |-> "response", status |-> st, retry_after |-> ra]

\* what one attempt of a GET can come back with
Attempts ==
    {HttpResponse(st, FALSE) : st \in {200, 404, 413, 429, 500, 501, 504}}
      \cup {HttpResponse(413, TRUE), Timeout}

IdleSession == [pc |-> "idle", total |-> 0, history |-> <<>>, out |-> <<"none">>]

\* a bug: every failed attempt is retried
is_retry_any_failure(a) == a.kind = "timeout" \/ a.status >= 400

\* Retry.increment on a connect/read timeout of a GET, Retry.is_retry on a
\* response: the attempt is one the session sends again
is_retry(a) ==
    \/ a.kind = "timeout"
    \/ a.status \in StatusForcelist
    \/ a.retry_after /\ a.status \in RetryAfterStatusCodes

\* Retry.is_exhausted, after the retry was counted
is_exhausted(total) == total < 0

\* resp.raise_for_status() on the final response
raise_for_status(a) ==
    IF a.status >= 400 THEN <<"raise", "HTTPError">> ELSE <<"document", a.status>>

\* session.get(url, timeout=30): the GET starts with a fresh Retry
session_get ==
    /\ session.pc = "idle"
    /\ session' = [IdleSession EXCEPT !.pc = "sending", !.total = RetryTotal]
    /\ UNCHANGED <<ALL_MATCHES, KEY_TO_SLUG, live_scores, now, call, lastPut, page>>

\* one attempt: the request is sent and a comes back
urlopen(a) ==
    /\ session.pc = "sending"
    /\ LET history == Append(session.history, a)
       IN  session' =
             IF is_retry(a)
             THEN IF is_exhausted(session.total - 1)
                  THEN [session EXCEPT !.pc = "done", !.history = history,
                          !.out = <<"raise", IF a.kind = "timeout" THEN "ConnectionError"
                                             ELSE "RetryError">>]
                  ELSE [session EXCEPT !.total = @ - 1, !.history = history]
             ELSE [session EXCEPT !.pc = "done", !.history = history,
                     !.out = raise_for_status(a)]
    /\ UNCHANGED <<ALL_MATCHES, KEY_TO_SLUG, live_scores, now, call, lastPut, page>>

\* the caller has the document or the exception; the next GET can start
session_return ==
    /\ session.pc = "done"
    /\ session' = IdleSession
    /\ UNCHANGED <<ALL_MATCHES, KEY_TO_SLUG, live_scores, now, call, lastPut, page>>

(***************************************************************************)
(* scrape_match_page: the extraction cascade that scrape_and_update calls  *)
(* on a score page.  A document is modelled by what each strategy of the   *)
(* ordered list finds in it.                                               *)
(***************************************************************************)
\* RawScoreData: home score, away score, status text, minute text
Raw(h, a, st, mi) == [home |-> h, away |-> a, status_text |-> st, minute_text |-> mi]

EmptyRaw == Raw(PyNone, PyNone, PyNone, PyNone)

\* the strategy hit an internal error or found nothing
Skip == <<"skip">>

Found(raw) == <<"data", raw>>

\* the strategies, in the order the cascade runs them
Strategies == <<"selector", "embedded_state", "structured_metadata">>

\* what one strategy can get out of a document
StrategyYields ==
    {Skip,
     Found(Raw(PyNone, PyNone, PyStr("HT"), PyNone)),
     Found(Raw(PyInt(1), PyNone, PyNone, PyNone)),
     Found(Raw(PyInt(1), PyInt(0), PyStr(""), PyStr("35"))),
     Found(Raw(PyInt(2), PyInt(1), PyStr("FT"), PyNone))}

Documents == [DOMAIN Strategies -> StrategyYields]

ExtractionFailed == <<"raise", "ExtractionFailed">>

HasBothScores(raw) == ~IsNone(raw.home) /\ ~IsNone(raw.away)

\* a strategy's fields are laid over what the strategies before it found
Merge(acc, raw) ==
    [f \in DOMAIN acc |-> IF IsNone(raw[f]) THEN acc[f] ELSE raw[f]]

RECURSIVE Cascade(_, _, _)
\* the strategies from the i-th on: the first that completes both scores
\* ends the cascade
Cascade(doc, i, acc) ==
    IF i > Len(doc) THEN ExtractionFailed
    ELSE IF doc[i][1] = "skip" THEN Cascade(doc, i + 1, acc)
    ELSE LET merged == Merge(acc, doc[i][2])
         IN  IF HasBothScores(merged) THEN <<"ok", merged>>
             ELSE Cascade(doc, i + 1, merged)

\* a bug: only the selector strategy is run
extract_selector_only(doc) == Cascade(SubSeq(doc, 1, 1), 1, EmptyRaw)

\* extract(Document) -> RawScoreData | ExtractionFailed
extract(doc) == Cascade(doc, 1, EmptyRaw)

NoPage == [pc |-> "none", doc |-> <<>>, out |-> <<"none">>]

\* the page of a match was fetched
open_page ==
    /\ page.pc \in {"none", "extracted"}
    /\ \E doc \in Documents : page' = [pc |-> "fetched", doc |-> doc, out |-> <<"none">>]
    /\ UNCHANGED <<ALL_MATCHES, KEY_TO_SLUG, live_scores, now, call, lastPut, session>>

\* live = scrape_match_page(url)
scrape_match_page ==
    /\ page.pc = "fetched"
    /\ page' = [page EXCEPT !.pc = "extracted", !.out = extract(page.doc)]
    /\ UNCHANGED <<ALL_MATCHES, KEY_TO_SLUG, live_scores, now, call, lastPut, session>>

(***************************************************************************)
(* The specification.                                                      *)
(***************************************************************************)
Init ==
    /\ ALL_MATCHES \in FixtureSets
    /\ KEY_TO_SLUG = LoadAll(EmptyDict, ALL_MATCHES)
    /\ live_scores = [k \in Keys |-> <<>>]
    /\ now = 19
    /\ call = [p \in Threads |-> IdleCall]
    /\ lastPut = NoPut
    /\ session = IdleSession
    /\ page = NoPage

Next ==
    \/ \E p \in DOMAIN call, identifier \in Identifiers : get_live_score_lookup(p, identifier)
    \/ \E p \in DOMAIN call : get_live_score_select(p)
    \/ \E p \in DOMAIN call : get_live_score_upsert(p)
    \/ \E p \in DOMAIN call : get_live_score_return(p)
    \/ \E match_id \in MatchIds, a \in ScrapedTexts :
         update_live_score(match_id, a.score, a.minute, a.status)
    \/ scrape_and_update_page
    \/ scrape_and_update
    \/ Tick

Spec == Init /\ [][Next]_vars

\* two requests racing each other, the worker at rest
InitRace ==
    /\ ALL_MATCHES \in FixtureSets
    /\ KEY_TO_SLUG = LoadAll(EmptyDict, ALL_MATCHES)
    /\ live_scores = [k \in Keys |-> <<>>]
    /\ now = 19
    /\ call = [p \in RaceThreads |-> IdleCall]
    /\ lastPut = NoPut
    /\ session = IdleSession
    /\ page = NoPage

NextRace ==
    \/ \E p \in DOMAIN call, identifier \in Identifiers : get_live_score_lookup(p, identifier)
    \/ \E p \in DOMAIN call : get_live_score_select(p)
    \/ \E p \in DOMAIN call : get_live_score_upsert(p)
    \/ \E p \in DOMAIN call : get_live_score_return(p)
    \/ Tick

SpecRace == InitRace /\ [][NextRace]_vars

\* one request at a time over the league files of LoaderFixtureSets
InitLoad ==
    /\ ALL_MATCHES \in LoaderFixtureSets
    /\ KEY_TO_SLUG = LoadAll(EmptyDict, ALL_MATCHES)
    /\ live_scores = [k \in Keys |-> <<>>]
    /\ now = 19
    /\ call = [p \in Threads |-> IdleCall]
    /\ lastPut = NoPut
    /\ session = IdleSession
    /\ page = NoPage

NextLoad ==
    \/ \E p \in DOMAIN call, identifier \in LoaderIdentifiers :
         get_live_score_lookup(p, identifier)
    \/ \E p \in DOMAIN call : get_live_score_select(p)
    \/ \E p \in DOMAIN call : get_live_score_upsert(p)
    \/ \E p \in DOMAIN call : get_live_score_return(p)
    \/ Tick

SpecLoad == InitLoad /\ [][NextLoad]_vars

\* the worker's GETs alone
InitFetch ==
    /\ ALL_MATCHES = <<FixtureFlaPal, FixtureBotCea>>
    /\ KEY_TO_SLUG = LoadAll(EmptyDict, ALL_MATCHES)
    /\ live_scores = [k \in Keys |-> <<>>]
    /\ now = 19
    /\ call = [p \in Threads |-> IdleCall]
    /\ lastPut = NoPut
    /\ session = IdleSession
    /\ page = NoPage

NextFetch ==
    \/ session_get
    \/ \E a \in Attempts : urlopen(a)
    \/ session_return

SpecFetch == InitFetch /\ [][NextFetch]_vars

\* the extraction of score pages alone
NextExtract ==
    \/ open_page
    \/ scrape_match_page

SpecExtract == InitFetch /\ [][NextExtract]_vars

(***************************************************************************)
(* Properties.                                                             *)
(***************************************************************************)
Done(p) == call[p].pc = "done"

\* the fixture an identifier stands for, by its slug; None when unknown
FixtureOf(identifier) == Get(KEY_TO_SLUG, Lower(identifier))

\* the row the table holds for a key that has one
RowOf(key) == live_scores[key][1]

\* the aliases of a fixture: its numeric id, its composite key, its slug
AliasesOf(f) ==
    LET m == f.m
        tstr == Or(Or(Or(Get(m, "utcDate"), Get(m, "kickoff")), Get(m, "start")),
                   Get(m, "dateTime"))
        home == Or(Get(m, "home_team"), Get(m, "home"))
        away == Or(Get(m, "away_team"), Get(m, "away"))
    IN  (IF IsNone(MatchIdOf(m)) THEN {} ELSE {Lower(Str(MatchIdOf(m)))})
        \cup (IF Truthy(tstr) /\ Truthy(home) /\ Truthy(away)
              THEN {Lower(f.lid) \o "_" \o Lower(Str(tstr)) \o "_" \o Lower(Str(home))
                      \o "_x_" \o Lower(Str(away))}
              ELSE {})
        \cup (IF Truthy(Get(m, "slug")) THEN {Lower(Str(m["slug"]))} ELSE {})

InNoAliasSet(identifier) ==
    \A i \in DOMAIN ALL_MATCHES : Lower(identifier) \notin AliasesOf(ALL_MATCHES[i])

\* C1: the first resolve of an identifier the store has no record for makes
\* exactly one fetch, one extraction and one write; a later resolve of the same
\* key, with no write in between, returns the record of the first (same
\* status, minute, score, updated_at) with no fetch and no write.
C1_MissThenHit ==
    [][\A p \in DOMAIN call :
         /\ (call[p].pc = "upsert" /\ call'[p].pc = "done")
              => /\ call'[p].fetches = 1
                 /\ call'[p].extractions = 1
                 /\ call'[p].writes = 1
         /\ \A q \in DOMAIN call \ {p} :
              (/\ Done(p) /\ call[p].path = "miss" /\ call[p].acked
               /\ lastPut.payload = MissPayload(call[p].identifier, call[p].now)
               /\ call[q].pc = "select" /\ call'[q].pc = "done"
               /\ call[q].identifier = call[p].identifier
               /\ call'[q].path = "hit")
              => /\ call'[q].out = call[p].out
                 /\ call'[q].fetches = 0
                 /\ call'[q].writes = 0
                 /\ live_scores' = live_scores]_vars

\* C2: on a cache hit (the key has a row whose score decodes) resolve returns
\* the stored status, minute, score and updated_at, whatever the kickoff time
\* and the clock are, and the select that finds a row leaves the store, the
\* fixtures and the alias table as they were: no upsert, no fetch.
C2_HitReturnsStoredRow ==
    [][\A p \in DOMAIN call :
         (call[p].pc = "select" /\ call'[p].path = "hit")
         => LET row == RowOf(CacheKey(call[p].identifier))
                out == call'[p].out
            IN  /\ live_scores' = live_scores
                /\ ALL_MATCHES' = ALL_MATCHES
                /\ KEY_TO_SLUG' = KEY_TO_SLUG
                /\ lastPut' = lastPut
                /\ call'[p].pc = "done"
                /\ call'[p].writes = 0
                /\ call'[p].fetches = 0
                /\ JsonLoads(row.score)[1] # "raise"
                     => /\ out[1] = "record"
                        /\ out[2].status = IF Truthy(row.status) THEN row.status
                                           ELSE PyStr("unknown")
                        /\ out[2].minute = IF Truthy(row.minute) THEN row.minute
                                           ELSE PyStr("")
                        /\ PyStr(JsonDumps(out[2].score)) = row.score
                        /\ out[2].updated_at = row.updated_at]_vars

\* a hit returned the row of a fixture whose kickoff is still ahead
C2_Witness ==
    \E p \in DOMAIN call :
      /\ Done(p) /\ call[p].path = "hit" /\ call[p].out[1] = "record"
      /\ call[p].kickoff_dt[1] = "datetime" /\ call[p].kickoff_dt[2] > call[p].now

\* C3: an identifier in no fixture's alias set ends resolve at once with
\* 404 NotFound: no record, no read or write of the store, no fetch, and the
\* store is as it was.
C3_UnknownIsNotFound ==
    [][\A p \in DOMAIN call :
         (call[p].pc = "idle" /\ call'[p].pc # "idle" /\ InNoAliasSet(call'[p].identifier))
         => /\ call'[p].pc = "done"
            /\ call'[p].out = <<"http", 404>>
            /\ call'[p].reads = 0
            /\ call'[p].writes = 0
            /\ call'[p].fetches = 0
            /\ live_scores' = live_scores
            /\ lastPut' = lastPut]_vars

C3_Witness ==
    \E p \in DOMAIN call :
      Done(p) /\ InNoAliasSet(call[p].identifier) /\ call[p].out = <<"http", 404>>

\* C4: every alias of a fixture reads and writes the store under one key, so
\* the rows of the store never include two rows for one fixture.
C4_OneKeyPerFixture ==
    \A k1 \in Keys, k2 \in Keys :
      (/\ HasRow(live_scores, k1) /\ HasRow(live_scores, k2)
       /\ Truthy(FixtureOf(k1)) /\ FixtureOf(k1) = FixtureOf(k2))
      => k1 = k2

\* C5: the store holds at most one row per match_id: a write for a key that
\* has a row replaces it, and no step removes a row.
C5_OneRowPerKey ==
    /\ \A k \in Keys : Len(live_scores[k]) <= 1
    /\ [][\A k \in Keys :
            /\ Len(live_scores'[k]) <= 1
            /\ HasRow(live_scores, k) => HasRow(live_scores', k)]_vars

\* a row that a later upsert has written over
C5_Witness ==
    \E k \in Keys : Len(live_scores[k]) = 1 /\ ~RowOf(k).whole

\* C6: an upsert repeated with the identical record leaves every select with
\* the answer it had after the first.
C6_UpsertIdempotent == lastPut.twice # "differs"

C6_Witness == lastPut.twice = "same"

\* the writers that write what a scrape returned
ObtainedData(by) == by \in {"update_live_score", "scrape_and_update_page"}

\* C7: a record is written only by an operation that obtained score data for
\* the match; without data (no source consulted, extraction failed, scrape
\* raised) nothing is written.
C7_FailedAttemptNotCached == lastPut.by # "none" => ObtainedData(lastPut.by)

\* C8: a failed cache write on the miss path does not fail resolve: the call
\* still returns the record it computed.
C8_WriteFailureNotFatal ==
    \A p \in DOMAIN call :
      (Done(p) /\ call[p].path = "miss" /\ ~call[p].acked) => call[p].out[1] = "record"

\* C9: two resolves of one key that both missed and both upserted both return
\* a record, and the store holds exactly one row for the key, the complete
\* record of one of the two.
C9_RacingMisses ==
    \A p \in DOMAIN call, q \in DOMAIN call :
      (/\ p # q /\ Done(p) /\ Done(q)
       /\ call[p].path = "miss" /\ call[q].path = "miss"
       /\ call[p].identifier = call[q].identifier
       /\ call[p].acked /\ call[q].acked)
      => LET k == CacheKey(call[p].identifier)
         IN  /\ call[p].out[1] = "record" /\ call[q].out[1] = "record"
             /\ Len(live_scores[k]) = 1
             /\ RowOf(k).whole
             /\ RowOf(k) \in {NewRow(MissPayload(call[r].identifier, call[r].now), PyNone)
                                : r \in {p, q}}

\* both requests missed at different hours and both wrote
C9_Witness ==
    \E p \in DOMAIN call, q \in DOMAIN call :
      /\ p # q /\ Done(p) /\ Done(q)
      /\ call[p].path = "miss" /\ call[q].path = "miss"
      /\ call[p].identifier = call[q].identifier
      /\ call[p].acked /\ call[q].acked
      /\ call[p].now # call[q].now

\* C10: every upsert sends status, minute, score and updated_at, so every
\* stored row has all its fields from one upsert.
C10_NoTornRow ==
    /\ lastPut.by # "none" => DataCols \subseteq DOMAIN lastPut.payload
    /\ \A k \in Keys : \A i \in DOMAIN live_scores[k] : live_scores[k][i].whole

\* the lifecycle statuses of a LiveScoreRecord
LifecycleStatuses == {PyStr("upcoming"), PyStr("in_progress"), PyStr("finished"),
                      PyStr("unknown")}

\* C11: a resolve that misses the cache for a fixture whose kickoff is later
\* than now returns status upcoming, score (0,0) and no minute.
C11_UpcomingBeforeKickoff ==
    \A p \in DOMAIN call :
      (/\ Done(p) /\ call[p].path = "miss" /\ call[p].out[1] = "record"
       /\ call[p].kickoff_dt[1] = "datetime" /\ call[p].kickoff_dt[2] > call[p].now)
      => /\ call[p].out[2].status = PyStr("upcoming")
         /\ call[p].out[2].score = PyDict(PyInt(0), PyInt(0))
         /\ call[p].out[2].minute \in {PyNone, PyStr("")}

\* C12: a resolve that misses the cache for a fixture whose kickoff has
\* passed, when the live source has 1-0, minute 35 and a status that is not
\* terminal, returns in_progress, minute 35, score (1,0), and the record it
\* stored is the one it returned.
C12_InProgressAfterKickoff ==
    \A p \in DOMAIN call :
      (/\ Done(p) /\ call[p].path = "miss" /\ call[p].out[1] = "record"
       /\ call[p].kickoff_dt[1] = "datetime" /\ call[p].kickoff_dt[2] <= call[p].now
       /\ scraper_get_live_score(call[p].identifier).status = PyStr("live"))
      => /\ call[p].out[2].status = PyStr("in_progress")
         /\ Str(call[p].out[2].minute) = "35"
         /\ call[p].out[2].score = PyDict(PyInt(1), PyInt(0))

\* C13: no alias of the lookup table is an alias of two different fixtures
\* of the league files: the later fixture would have been rejected.
C13_InjectiveAliases ==
    \A k \in DOMAIN KEY_TO_SLUG : \A i \in DOMAIN ALL_MATCHES, j \in DOMAIN ALL_MATCHES :
      (k \in AliasesOf(ALL_MATCHES[i]) /\ k \in AliasesOf(ALL_MATCHES[j])) => i = j

\* the identifier is the id or the composite key of a fixture without slug
KnownWithoutSlug(identifier) ==
    \E i \in DOMAIN ALL_MATCHES :
      /\ ~Truthy(Get(ALL_MATCHES[i].m, "slug"))
      /\ Lower(identifier) \in AliasesOf(ALL_MATCHES[i])

\* C14: resolve by the id or composite key of a known fixture that has no
\* slug ends with NoSource, which is not the NotFound of an unknown
\* identifier, and it fetches nothing and writes nothing.
C14_NoSourceNotNotFound ==
    \A p \in DOMAIN call :
      (Done(p) /\ KnownWithoutSlug(call[p].identifier))
      => /\ call[p].out # <<"http", 404>>
         /\ call[p].out[1] # "record"
         /\ call[p].writes = 0
         /\ call[p].fetches = 0

\* C15: a select that finds a row whose score does not decode does not raise
\* and returns nothing of the row: the call goes on to the miss branch.
C15_MalformedRowIsAbsent ==
    [][\A p \in DOMAIN call :
         (/\ call[p].pc = "select" /\ call'[p].pc # "select"
          /\ call'[p].path # "storeerror"
          /\ HasRow(live_scores, CacheKey(call[p].identifier))
          /\ JsonLoads(RowOf(CacheKey(call[p].identifier)).score)[1] = "raise")
         => /\ call'[p].pc = "upsert"
            /\ call'[p].path = "miss"]_vars

\* C17: every stored row and every record returned has a lifecycle status.
C17_StatusVocabulary ==
    /\ \A k \in Keys : \A i \in DOMAIN live_scores[k] :
         live_scores[k][i].status \in LifecycleStatuses
    /\ \A p \in DOMAIN call :
         (Done(p) /\ call[p].out[1] = "record") => call[p].out[2].status \in LifecycleStatuses

\* C19: for an identifier of the alias table the scan for the kickoff time
\* never ends the call: the call goes on to the select.
C19_ScanNeverAborts ==
    \A p \in DOMAIN call :
      (Done(p) /\ Truthy(Get(KEY_TO_SLUG, Lower(call[p].identifier))))
      => /\ call[p].path # "scan"
         /\ call[p].reads >= 1

\* the last attempt of the GET in progress
LastAttempt == session.history[Len(session.history)]

\* C16 as stated: a GET makes at most 3 attempts, and an attempt is sent
\* again only after a timeout or a 5xx response.
C16_RetryBounded ==
    [][(session.pc = "sending" /\ session'.history # session.history)
       => /\ Len(session'.history) <= 3
          /\ session.history # <<>>
               => \/ LastAttempt.kind = "timeout"
                  \/ LastAttempt.status \in 500..599]_vars

\* C16 amended: a GET makes at most RetryTotal + 1 attempts; an attempt is
\* sent again only after a timeout, a response whose status is in
\* status_forcelist, or a 413 that carries Retry-After; any other response
\* ends the GET at once; the last attempt allowed ends it, with the document
\* or with an exception.
C16_RetryBoundedAmended ==
    [][(session.pc = "sending" /\ session'.history # session.history)
       => LET a == session'.history[Len(session'.history)]
          IN  /\ Len(session'.history) <= RetryTotal + 1
              /\ session.history # <<>>
                   => \/ LastAttempt.kind = "timeout"
                      \/ LastAttempt.status \in StatusForcelist
                      \/ LastAttempt.status = 413 /\ LastAttempt.retry_after
              /\ (a.kind = "response" /\ a.status \notin StatusForcelist
                    /\ ~(a.status = 413 /\ a.retry_after))
                   => session'.pc = "done"
              /\ Len(session'.history) = RetryTotal + 1 => session'.pc = "done"
              /\ session'.pc = "done" => session'.out[1] \in {"document", "raise"}
              /\ session'.pc = "done" /\ a.kind = "response" /\ a.status = 200
                   => session'.out[1] = "document"]_vars

\* a GET that was sent again after a 429 and got its document on the last
\* attempt allowed
C16_Witness ==
    /\ session.pc = "done"
    /\ Len(session.history) = RetryTotal + 1
    /\ session.history[1].status = 429
    /\ session.out[1] = "document"

\* the strategies that find both scores in the page, by their place in the list
FullStrategies ==
    {i \in DOMAIN page.doc : page.doc[i][1] = "data" /\ HasBothScores(page.doc[i][2])}

FirstFull == CHOOSE i \in FullStrategies : \A j \in FullStrategies : i <= j

\* C18: when the first strategy fails and a later one finds both scores,
\* extract returns the scores of the first strategy that finds both; extract
\* fails only when no strategy finds both scores, and a strategy that is
\* skipped on an internal error does not end the cascade.
C18_CascadeFallback ==
    page.pc = "extracted"
    => /\ (1 \notin FullStrategies /\ FullStrategies # {})
            => /\ page.out[1] = "ok"
               /\ page.out[2].home = page.doc[FirstFull][2].home
               /\ page.out[2].away = page.doc[FirstFull][2].away
       /\ page.out = ExtractionFailed => FullStrategies = {}

\* the first strategy was skipped, the second found the status only, the
\* third found both scores
C18_Witness ==
    /\ page.pc = "extracted"
    /\ page.doc[1] = Skip
    /\ page.doc[2][1] = "data" /\ ~HasBothScores(page.doc[2][2])
    /\ 3 \in FullStrategies
    /\ page.out[1] = "ok"

====
